---- MODULE Spec2Model ----
(***************************************************************************)
(* A model of webcontent.py: the line filter remove_trash, the tokenizer   *)
(* to_token and the pipeline classify_web (fetch, extract, clean,          *)
(* tokenize, score, sort, return).                                         *)
(*                                                                         *)
(* A Python str is a sequence of atoms.  An atom is either one whitespace  *)
(* character (" ", "\t", "\n") or a run of non-whitespace characters the   *)
(* tokenizer keeps together ("Cars", ",", "http://a.io").  Two word atoms  *)
(* with no whitespace atom between them belong to the same str.split()     *)
(* word.                                                                   *)
(***************************************************************************)
EXTENDS Integers, Sequences, FiniteSets, TLC

VARIABLES
    pc,                \* position of the running classify_web call
    earlier,           \* whether a call of classify_web has ended before
    topics,            \* the module-level list `topics` (lines 42-72)
    page,              \* what the network and the extractor hold for url
    topics_arg,        \* the caller's sequence bound to parameter topics
    analyse_sentiment, \* parameter analyse_sentiment
    get_calls,         \* requests.get calls made by the running call
    content,           \* local content (line 195)
    token_join,        \* local token_join (line 198)
    doc,               \* text handed to nlp for doc (line 201)
    topics_str,        \* local topics after its rebinding (line 204)
    topic,             \* tokens of nlp(topics) (line 205)
    topic_similarity,  \* local topic_similarity (lines 208-210)
    sentiment_log,     \* the calls of sentiment() by the running call
    senti_result,      \* local senti_result (lines 213-215)
    result,            \* local result (lines 219-223)
    error,             \* exception that left the running call, "" if none
    fn_in,             \* argument record of a direct call of a pure function
    fn_out,            \* its return value
    fn_done            \* whether the direct call has returned

vars == <<pc, earlier, topics, page, topics_arg, analyse_sentiment, get_calls,
          content, token_join, doc, topics_str, topic, topic_similarity,
          sentiment_log, senti_result, result, error,
          fn_in, fn_out, fn_done>>

callvars == <<pc, earlier, topics, page, topics_arg, analyse_sentiment,
              get_calls, content, token_join, doc, topics_str, topic,
              topic_similarity, sentiment_log,
              senti_result, result, error>>

(***************************************************************************)
(* Bounds.                                                                 *)
(***************************************************************************)
MaxTextLen == 6      \* atoms in a text given to remove_trash directly
MaxMinSize == 2      \* min_size ranges over 0..MaxMinSize in direct calls

(***************************************************************************)
(* Strings.                                                                *)
(***************************************************************************)
\* str.isspace() for one atom.
isspace(a) == a \in {" ", "\t", "\n"}

\* All sequences over S of length at most n.
SeqsUpTo(S, n) == UNION {[1..k -> S] : k \in 0..n}

RECURSIVE split_sep(_, _)
\* text.split(sep): the segments between occurrences of sep; never empty.
split_sep(text, sep) ==
    IF \A p \in 1..Len(text) : text[p] # sep
      THEN <<text>>
      ELSE LET p == CHOOSE q \in 1..Len(text) :
                        text[q] = sep /\ \A r \in 1..(q - 1) : text[r] # sep
           IN  <<SubSeq(text, 1, p - 1)>>
                 \o split_sep(SubSeq(text, p + 1, Len(text)), sep)

RECURSIVE split(_)
\* text.split(): the maximal runs of non-whitespace atoms, in order.
split(text) ==
    IF \A p \in 1..Len(text) : isspace(text[p])
      THEN <<>>
      ELSE LET b == CHOOSE q \in 1..Len(text) :
                        ~isspace(text[q]) /\ \A r \in 1..(q - 1) : isspace(text[r])
               e == CHOOSE q \in b..Len(text) :
                        /\ \A r \in b..q : ~isspace(text[r])
                        /\ (q = Len(text) \/ isspace(text[q + 1]))
           IN  <<SubSeq(text, b, e)>> \o split(SubSeq(text, e + 1, Len(text)))

\* A list of one-atom strs, from the list of their atoms.
Texts(list) == [j \in 1..Len(list) |-> <<list[j]>>]

RECURSIVE join(_, _)
\* sep.join(parts) for a list of strs.
join(sep, parts) ==
    IF parts = <<>> THEN <<>>
    ELSE IF Len(parts) = 1 THEN Head(parts)
    ELSE Head(parts) \o sep \o join(sep, Tail(parts))

(***************************************************************************)
(* remove_trash (lines 77-99).                                             *)
(***************************************************************************)
\* The loop body with the test inverted: a segment of exactly min_size
\* words is kept.
remove_trash_step_lt(cleaned, i, min_size) ==
    IF Len(split(i)) < min_size THEN cleaned ELSE cleaned \o i

\* Lines 95-98: one iteration of the loop over the segments.
remove_trash_step(cleaned, i, min_size) ==
    IF Len(split(i)) <= min_size THEN cleaned ELSE cleaned \o i

RECURSIVE remove_trash_loop(_, _, _)
\* Lines 94-98: the for loop, cleaned being the accumulator.
remove_trash_loop(segments, min_size, cleaned) ==
    IF segments = <<>> THEN cleaned
    ELSE remove_trash_loop(Tail(segments), min_size,
                           remove_trash_step(cleaned, Head(segments), min_size))

remove_trash(text, min_size) ==
    remove_trash_loop(split_sep(text, "\n"), min_size, <<>>)

(***************************************************************************)
(* The tokenizer and the lexical attributes to_token reads.  parser is     *)
(* spaCy's English() and wn.morphy is WordNet's root lookup: both are      *)
(* libraries, given here by what they return on the atoms of the model.    *)
(***************************************************************************)
\* token.lower_
lower_(a) ==
    CASE a = "Cars" -> "cars"
      [] a = "The"  -> "the"
      [] a = "Electric" -> "electric"
      [] OTHER -> a

like_url(a) == a \in {"http://a.io"}
is_punct(a) == a \in {",", "."}
like_num(a) == a \in {"42", "ten"}
is_stop(a) == lower_(a) \in {"the", "are", "ten", "'s"}

\* a.startswith(c) for a one-character prefix c.
startswith(a, c) ==
    \/ c = "@" /\ a \in {"@bob"}
    \/ c = "#" /\ a \in {"#tag"}

\* Python's None, as wn.morphy returns it for a form with no root.
NoRoot == ""

\* wn.morphy(x): the first WordNet root of x, nouns tried before verbs.
\* "discussed" has no noun reading and is the verb "discuss"; "discuss" is
\* no noun, but its noun suffix rule s -> "" gives the noun "discus".
morphy(x) ==
    CASE x = "cars"      -> "car"
      [] x = "car"       -> "car"
      [] x = "discussed" -> "discuss"
      [] x = "discuss"   -> "discus"
      [] x = "discus"    -> "discus"
      [] x = "popular"   -> "popular"
      [] x = "electric"  -> "electric"
      [] x = "worldwide" -> "worldwide"
      [] OTHER           -> NoRoot

\* The tokens the tokenizer cuts one word atom into: its suffix rules split
\* the possessive off "children's"; the other atoms stay whole.
subtokens(a) ==
    CASE a = "children's" -> <<"children", "'s">>
      [] OTHER -> <<a>>

RECURSIVE parser_from(_, _)
\* Tokens of text from position p on.  One space after a word is that
\* token's trailing whitespace; any other whitespace atom is a token.
parser_from(text, p) ==
    IF p > Len(text) THEN <<>>
    ELSE IF text[p] = " " /\ p > 1 /\ ~isspace(text[p - 1])
           THEN parser_from(text, p + 1)
           ELSE subtokens(text[p]) \o parser_from(text, p + 1)

\* parser(text): the orth_ of each token, in order (line 122).
parser(text) == parser_from(text, 1)

\* nlp(text) (lines 38, 205), as the tokens of the Doc it returns:
\* en_core_web_md tokenizes with the rules of English().
nlp(text) == parser(text)

\* Lines 124-137: the elif chain; TRUE when the token is skipped.
skipped(token) ==
    IF isspace(token) THEN TRUE
    ELSE IF like_url(token) THEN TRUE
    ELSE IF startswith(token, "@") THEN TRUE
    ELSE IF startswith(token, "#") THEN TRUE
    ELSE IF is_punct(token) THEN TRUE
    ELSE IF like_num(token) THEN TRUE
    ELSE IF is_stop(token) THEN TRUE
    ELSE FALSE

\* Line 141: the list comprehension over the whole of token_list.
lemmatize(token_list) ==
    [j \in 1..Len(token_list) |->
        IF morphy(token_list[j]) # NoRoot THEN morphy(token_list[j])
        ELSE token_list[j]]

RECURSIVE to_token_loop(_, _)
\* Lines 123-141: the for loop; line 141 is inside it, after the append.
to_token_loop(tokens, token_list) ==
    IF tokens = <<>> THEN token_list
    ELSE IF skipped(Head(tokens))
           THEN to_token_loop(Tail(tokens), token_list)
           ELSE to_token_loop(Tail(tokens),
                              lemmatize(Append(token_list, lower_(Head(tokens)))))

to_token(text) == to_token_loop(parser(text), <<>>)

(***************************************************************************)
(* classify_web (lines 165-225).                                           *)
(***************************************************************************)
MaxTopics == 2       \* length of a caller-supplied topic list
MaxSim == 1          \* similarity scores range over 0..MaxSim
DefaultLen == 2      \* entries of the module-level topic list that are kept

\* The default of remove_trash's parameter min_size (line 77).
DefaultMinSize == 4

\* The list literal of lines 42-72.
topics_literal ==
    <<"automotive", "travel", "science", "technology", "nature", "sports",
      "business", "beauty", "fashion", "music", "art", "movie",
      "entertainment", "media", "children", "health", "gambling", "religion",
      "education", "politics", "history", "war", "news", "food", "literature",
      "crime", "analysis", "incident", "postmortem">>

\* Words a caller puts in a topic list: whitespace-free single words.
TopicWords == {"art", "war", "children's"}
TopicLists == SeqsUpTo({<<w>> : w \in TopicWords}, MaxTopics) \ {<<>>}

\* The module-level list as the model holds it.
DefaultTopics == Texts(SubSeq(topics_literal, 1, DefaultLen))

\* Contents the extractor returns.  Lines end in a full stop, so the atoms
\* of a cleaned text are still its tokens.
LongLine == <<"Electric", " ", "Cars", " ", "discussed", " ", "popular", " ",
              "worldwide", ".">>
ShortLine == <<"xyzzy", " ", "42">>
Contents == {<<>>, ShortLine, LongLine \o <<"\n">> \o ShortLine,
             LongLine \o <<"\n">> \o LongLine}

\* What a url leads to: no response at all, or a response with a status and
\* a body that decodes or not, and the content the extractor finds in it.
\* The body of a 404 response is an error page of one short line.
Pages ==
    {[net |-> "error", status |-> 0, utf8 |-> TRUE, content |-> <<>>]}
    \cup {[net |-> "ok", status |-> s, utf8 |-> FALSE, content |-> <<>>] :
             s \in {200, 404}}
    \cup [net : {"ok"}, status : {200}, utf8 : {TRUE}, content : Contents]
    \cup {[net |-> "ok", status |-> 404, utf8 |-> TRUE, content |-> ShortLine]}

\* Values of TextBlob(text).sentiment.
Sentiments ==
    [is_none : {FALSE}, polarity : {0, 1}, subjectivity : {0}]

\* Python's None, as senti_result holds it.
None == [is_none |-> TRUE, polarity |-> 0, subjectivity |-> 0]

\* No call of classify_web is running; the module has been loaded.
NoCall ==
    /\ pc = "idle" /\ earlier = FALSE
    /\ topics = DefaultTopics
    /\ page = [net |-> "ok", status |-> 200, utf8 |-> TRUE, content |-> <<>>]
    /\ topics_arg = <<>> /\ analyse_sentiment = FALSE /\ get_calls = 0
    /\ content = <<>> /\ token_join = <<>> /\ doc = <<>>
    /\ topics_str = <<>> /\ topic = <<>> /\ topic_similarity = <<>>
    /\ sentiment_log = <<>> /\ senti_result = None
    /\ result = <<>> /\ error = ""

Init ==
    /\ NoCall
    /\ fn_in = [text |-> <<>>] /\ fn_out = <<>> /\ fn_done = FALSE

fnvars == <<fn_in, fn_out, fn_done>>

\* Line 165: a caller calls classify_web(url, topics, analyse_sentiment),
\* with its own topic list or with the default, the module-level list.
Call ==
    /\ pc = "idle"
    /\ page' \in Pages
    /\ topics_arg' \in TopicLists \cup {topics}
    /\ analyse_sentiment' \in BOOLEAN
    /\ get_calls' = 0 /\ content' = <<>> /\ token_join' = <<>> /\ doc' = <<>>
    /\ topics_str' = <<>> /\ topic' = <<>> /\ topic_similarity' = <<>>
    /\ sentiment_log' = <<>> /\ senti_result' = None
    /\ result' = <<>> /\ error' = ""
    /\ pc' = "get"
    /\ UNCHANGED <<earlier, topics, fnvars>>

\* Line 192: resp = requests.get(url).  It raises when there is no
\* response; a response of any status is returned.
Get ==
    /\ pc = "get"
    /\ get_calls' = get_calls + 1
    /\ IF page.net = "error"
         THEN pc' = "raised" /\ error' = "ConnectionError"
         ELSE pc' = "extract" /\ error' = error
    /\ UNCHANGED <<earlier, topics, page, topics_arg, analyse_sentiment, content,
                   token_join, doc, topics_str, topic, topic_similarity,
                   sentiment_log, senti_result, result, fnvars>>

\* Line 195: content = extractor.get_content(resp.content.decode("utf-8")).
Extract ==
    /\ pc = "extract"
    /\ IF ~page.utf8
         THEN pc' = "raised" /\ error' = "UnicodeDecodeError" /\ content' = content
         ELSE pc' = "tokens" /\ error' = error /\ content' = page.content
    /\ UNCHANGED <<earlier, topics, page, topics_arg, analyse_sentiment, get_calls,
                   token_join, doc, topics_str, topic, topic_similarity,
                   sentiment_log, senti_result, result, fnvars>>

\* Line 198 without the cleaner: the content itself is tokenized.
TokenizeUnfiltered ==
    /\ pc = "tokens"
    /\ token_join' = join(<<" ">>, Texts(to_token(content)))
    /\ pc' = "doc"
    /\ UNCHANGED <<earlier, topics, page, topics_arg, analyse_sentiment, get_calls,
                   content, doc, topics_str, topic, topic_similarity,
                   sentiment_log, senti_result, result, error, fnvars>>

\* Line 198: token_join = " ".join(to_token(remove_trash(content))).
Tokenize ==
    /\ pc = "tokens"
    /\ token_join' = join(<<" ">>,
                          Texts(to_token(remove_trash(content, DefaultMinSize))))
    /\ pc' = "doc"
    /\ UNCHANGED <<earlier, topics, page, topics_arg, analyse_sentiment, get_calls,
                   content, doc, topics_str, topic, topic_similarity,
                   sentiment_log, senti_result, result, error, fnvars>>

\* Line 201: doc = nlp(token_join).
Doc ==
    /\ pc = "doc"
    /\ doc' = token_join
    /\ pc' = "topics"
    /\ UNCHANGED <<earlier, topics, page, topics_arg, analyse_sentiment, get_calls,
                   content, token_join, topics_str, topic, topic_similarity,
                   sentiment_log, senti_result, result, error, fnvars>>

\* Lines 204-205 with the joined string stored in the module-level name.
JoinTopicsGlobal ==
    /\ pc = "topics"
    /\ topics_str' = join(<<" ">>, topics_arg)
    /\ topics' = topics_str'
    /\ topic' = nlp(topics_str')
    /\ pc' = "similarity"
    /\ UNCHANGED <<earlier, page, topics_arg, analyse_sentiment, get_calls,
                   content, token_join, doc, topic_similarity,
                   sentiment_log, senti_result, result, error, fnvars>>

\* Lines 204-205: topics = " ".join(topics) rebinds the local name topics to
\* a new str; topic = nlp(topics) holds the tokens of that str.
JoinTopics ==
    /\ pc = "topics"
    /\ topics_str' = join(<<" ">>, topics_arg)
    /\ topic' = nlp(topics_str')
    /\ pc' = "similarity"
    /\ UNCHANGED <<earlier, topics, page, topics_arg, analyse_sentiment, get_calls,
                   content, token_join, doc, topic_similarity,
                   sentiment_log, senti_result, result, error, fnvars>>

\* Lines 208-210: one doc.similarity(token) per token of topic, appended in
\* token order.  The score is the embedding model's.
Similarity ==
    /\ pc = "similarity"
    /\ topic_similarity' \in [1..Len(topic) -> 0..MaxSim]
    /\ pc' = "sentiment"
    /\ UNCHANGED <<earlier, topics, page, topics_arg, analyse_sentiment, get_calls,
                   content, token_join, doc, topics_str, topic,
                   sentiment_log, senti_result, result, error, fnvars>>

\* sentiment(text), lines 145-159: TextBlob(text).sentiment, logged.
sentiment(text, value) ==
    /\ sentiment_log' = Append(sentiment_log, [text |-> text, value |-> value])
    /\ senti_result' = value

\* Lines 213-215 with the test dropped: the scorer always runs.
SentimentAlways ==
    /\ pc = "sentiment"
    /\ \E v \in Sentiments : sentiment(content, v)
    /\ pc' = "table"
    /\ UNCHANGED <<earlier, topics, page, topics_arg, analyse_sentiment, get_calls,
                   content, token_join, doc, topics_str, topic, topic_similarity,
                   result, error, fnvars>>

\* Lines 213-215 with the scorer given the tokenized text.
SentimentOfTokens ==
    /\ pc = "sentiment"
    /\ IF analyse_sentiment
         THEN \E v \in Sentiments : sentiment(token_join, v)
         ELSE senti_result' = None /\ sentiment_log' = sentiment_log
    /\ pc' = "table"
    /\ UNCHANGED <<earlier, topics, page, topics_arg, analyse_sentiment, get_calls,
                   content, token_join, doc, topics_str, topic, topic_similarity,
                   result, error, fnvars>>

\* Lines 213-215: senti_result = None; if analyse_sentiment:
\* senti_result = sentiment(content).
Sentiment ==
    /\ pc = "sentiment"
    /\ IF analyse_sentiment
         THEN \E v \in Sentiments : sentiment(content, v)
         ELSE senti_result' = None /\ sentiment_log' = sentiment_log
    /\ pc' = "table"
    /\ UNCHANGED <<earlier, topics, page, topics_arg, analyse_sentiment, get_calls,
                   content, token_join, doc, topics_str, topic, topic_similarity,
                   result, error, fnvars>>

\* pd.DataFrame(data=data) for two columns of one length: row j holds the
\* j-th entry of each column under the index j - 1.
DataFrame(topics_col, similarity_col) ==
    [j \in 1..Len(topics_col) |->
        [index |-> j - 1, topics |-> topics_col[j], similarity |-> similarity_col[j]]]

\* The orders of n rows.
Orders(n) == {o \in [1..n -> 1..n] : \A i, j \in 1..n : i # j => o[i] # o[j]}

\* Rows in ascending order of similarity.
sort_values_ascending(frame) ==
    {[j \in 1..Len(frame) |-> frame[o[j]]] : o \in
        {o \in Orders(Len(frame)) :
            \A i, j \in 1..Len(frame) :
                i < j => frame[o[i]].similarity <= frame[o[j]].similarity}}

\* .sort_values(["similarity"], ascending=[False]): the rows in descending
\* order of similarity.  No kind is passed, so the sort is pandas' default
\* quicksort, which is not stable: rows of equal similarity may come out in
\* any order.
sort_values(frame) ==
    {[j \in 1..Len(frame) |-> frame[o[j]]] : o \in
        {o \in Orders(Len(frame)) :
            \A i, j \in 1..Len(frame) :
                i < j => frame[o[i]].similarity >= frame[o[j]].similarity}}

\* .reset_index(drop=True): the index becomes 0..N-1 in row order.
reset_index(frame) ==
    [j \in 1..Len(frame) |-> [frame[j] EXCEPT !.index = j - 1]]

\* Lines 218-223: data = {"topics": topics.split(), "similarity":
\* topic_similarity}; pandas raises ValueError when the two columns differ
\* in length.
Table ==
    /\ pc = "table"
    /\ IF Len(split(topics_str)) # Len(topic_similarity)
         THEN pc' = "raised" /\ error' = "ValueError" /\ result' = result
         ELSE /\ result' \in {reset_index(f) :
                    f \in sort_values(DataFrame(split(topics_str), topic_similarity))}
              /\ pc' = "return" /\ error' = error
    /\ UNCHANGED <<earlier, topics, page, topics_arg, analyse_sentiment, get_calls,
                   content, token_join, doc, topics_str, topic, topic_similarity,
                   sentiment_log, senti_result, fnvars>>

\* Line 225: return (result, senti_result).
Return ==
    /\ pc = "return"
    /\ pc' = "returned"
    /\ UNCHANGED <<earlier, topics, page, topics_arg, analyse_sentiment, get_calls,
                   content, token_join, doc, topics_str, topic, topic_similarity,
                   sentiment_log, senti_result, result, error, fnvars>>

\* The call has ended, by line 225 or by an exception: its frame and its
\* locals are gone, and the caller may call again.
Unwind ==
    /\ pc \in {"returned", "raised"}
    /\ pc' = "idle"
    /\ earlier' = TRUE
    /\ page' = [net |-> "ok", status |-> 200, utf8 |-> TRUE, content |-> <<>>]
    /\ topics_arg' = <<>> /\ analyse_sentiment' = FALSE
    /\ get_calls' = 0 /\ content' = <<>> /\ token_join' = <<>> /\ doc' = <<>>
    /\ topics_str' = <<>> /\ topic' = <<>> /\ topic_similarity' = <<>>
    /\ sentiment_log' = <<>> /\ senti_result' = None
    /\ result' = <<>> /\ error' = ""
    /\ UNCHANGED <<topics, fnvars>>

Next ==
    \/ Call \/ Get \/ Extract \/ Tokenize \/ Doc \/ JoinTopics \/ Similarity
    \/ Sentiment \/ Table \/ Return \/ Unwind

Spec == Init /\ [][Next]_vars

(***************************************************************************)
(* Direct calls of the two pure functions.                                 *)
(***************************************************************************)
TrashAtoms == {"a", " ", "\t", "\n"}
TokenAtoms == {" ", "Cars", "discussed", "The", "http://a.io", "@bob",
               "#tag", ",", "42", "xyzzy"}
MaxTokens == 3       \* atoms in a text given to to_token directly

InitTrash ==
    /\ NoCall
    /\ fn_in \in [text : SeqsUpTo(TrashAtoms, MaxTextLen), min_size : 0..MaxMinSize]
    /\ fn_out = <<>>
    /\ fn_done = FALSE

\* remove_trash(text, min_size) called and returned.
CallRemoveTrash ==
    /\ ~fn_done
    /\ fn_out' = remove_trash(fn_in.text, fn_in.min_size)
    /\ fn_done' = TRUE
    /\ UNCHANGED <<fn_in, callvars>>

SpecTrash == InitTrash /\ [][CallRemoveTrash]_vars

\* A text whose atoms are its tokens: of two atoms with no whitespace
\* between them, one is a punctuation mark.
Tokenizable(text) ==
    \A p \in 1..(Len(text) - 1) :
        \/ isspace(text[p]) \/ isspace(text[p + 1])
        \/ is_punct(text[p]) \/ is_punct(text[p + 1])

InitToken ==
    /\ NoCall
    /\ fn_in \in [text : {t \in SeqsUpTo(TokenAtoms, MaxTokens) : Tokenizable(t)}]
    /\ fn_out = <<>>
    /\ fn_done = FALSE

\* to_token(text) called and returned.
CallToToken ==
    /\ ~fn_done
    /\ fn_out' = to_token(fn_in.text)
    /\ fn_done' = TRUE
    /\ UNCHANGED <<fn_in, callvars>>

SpecToken == InitToken /\ [][CallToToken]_vars

(***************************************************************************)
(* C3                                                                      *)
(***************************************************************************)
\* First and last position of the newline-free stretch of text around p.
LineLo(text, p) ==
    CHOOSE q \in 1..p : /\ \A r \in q..p : text[r] # "\n"
                        /\ (q = 1 \/ text[q - 1] = "\n")
LineHi(text, p) ==
    CHOOSE q \in p..Len(text) : /\ \A r \in p..q : text[r] # "\n"
                                /\ (q = Len(text) \/ text[q + 1] = "\n")
\* Words of text between positions lo and hi: the places where a word starts.
WordsIn(text, lo, hi) ==
    Cardinality({q \in lo..hi :
                    ~isspace(text[q]) /\ (q = lo \/ isspace(text[q - 1]))})
\* Positions of text that lie on a line of more than m words.
KeptPositions(text, m) ==
    {p \in 1..Len(text) :
        text[p] # "\n" /\ WordsIn(text, LineLo(text, p), LineHi(text, p)) > m}
\* The atoms of text at the positions P, in the order of the positions.
Pick(text, P) ==
    [k \in 1..Cardinality(P) |->
        text[CHOOSE p \in P : Cardinality({q \in P : q <= p}) = k]]

Survives(t) ==
    ~(\/ isspace(t) \/ like_url(t) \/ startswith(t, "@") \/ startswith(t, "#")
      \/ is_punct(t) \/ like_num(t) \/ is_stop(t))

\* The root of x, or x itself when it has none: one lookup.
RootOnce(x) == IF morphy(x) # NoRoot THEN morphy(x) ELSE x

\* C6: to_token returns one entry per token that meets none of the seven
\* exclusion predicates, in token order, duplicates kept, and each entry is
\* the root of the token's lowercased form (the lowercased form itself when
\* it has no root).
C6_ToTokenEntryIsLemmaOfToken ==
    fn_done =>
        LET surv == SelectSeq(parser(fn_in.text), Survives)
        IN  /\ Len(fn_out) = Len(surv)
            /\ \A j \in 1..Len(surv) : fn_out[j] = RootOnce(lower_(surv[j]))

RECURSIVE AppendSurvivors(_, _)
\* The loop of to_token without its line 141: survivors appended lowercased.
AppendSurvivors(tokens, token_list) ==
    IF tokens = <<>> THEN token_list
    ELSE AppendSurvivors(Tail(tokens),
                         IF skipped(Head(tokens)) THEN token_list
                         ELSE Append(token_list, lower_(Head(tokens))))

\* C7: re-lemmatizing the whole list after every append gives the list that
\* appending every survivor first and lemmatizing once at the end gives.
C7_RelemmatizingEqualsOnePass ==
    fn_done => fn_out = lemmatize(AppendSurvivors(parser(fn_in.text), <<>>))

(***************************************************************************)
(* Claims about classify_web.                                              *)
(***************************************************************************)
\* The call has built its table.
HasTable == pc \in {"return", "returned"}
\* The call has handed its text to nlp (line 201).
HasDoc == pc \in {"topics", "similarity", "sentiment", "table", "return", "returned"}
   \/ (pc = "raised" /\ error = "ValueError")

\* C1: a call that gets past fetch and extraction does not raise, and its
\* table has one row per supplied topic, whatever number of tokens the
\* tokenizer cuts a topic word into.
C1_OneRowPerTopic ==
    /\ pc = "raised" => error \in {"ConnectionError", "UnicodeDecodeError"}
    /\ HasTable =>
         /\ Len(result) = Len(topics_arg)
         /\ \A j \in 1..Len(topics_arg) :
              \E k \in 1..Len(result) : result[k].topics = topics_arg[j]

\* The rows of the table are the (topic, score) pairs of the call taken in
\* the order o, under the index 0..N-1.
RowsInOrder(o) ==
    \A k \in 1..Len(result) :
        /\ result[k].topics = topics_arg[o[k]]
        /\ result[k].similarity = topic_similarity[o[k]]
        /\ result[k].index = k - 1

\* Adjacent rows are in descending order of similarity.
Descending ==
    \A k \in 1..(Len(result) - 1) : result[k].similarity >= result[k + 1].similarity

FetchFails == page.net = "error" \/ page.status \notin 200..299 \/ ~page.utf8

\* C4: when the fetch fails the call raises after one attempt and no stage
\* after the fetch runs.
C4_FetchFailureRaises ==
    (pc # "idle" /\ FetchFails) =>
        /\ pc \in {"get", "extract", "raised"}
        /\ pc = "raised" => error \in {"ConnectionError", "HTTPError", "UnicodeDecodeError"}
        /\ get_calls <= 1
        /\ sentiment_log = <<>> /\ result = <<>>

\* C5: the returned sentiment is None exactly when analyse_sentiment is
\* false, and then the scorer was never called; when it is true the scorer
\* was called once and what it returned is returned.
C5_SentimentOnlyOnRequest ==
    /\ ~analyse_sentiment => sentiment_log = <<>>
    /\ Len(sentiment_log) <= 1
    /\ HasTable =>
         /\ (senti_result = None) <=> ~analyse_sentiment
         /\ analyse_sentiment =>
              /\ Len(sentiment_log) = 1
              /\ senti_result = sentiment_log[1].value
              /\ senti_result \in Sentiments

\* A call returned with a sentiment, and the scorer ran once.
C5_Witness ==
    /\ pc = "returned" /\ analyse_sentiment
    /\ Len(sentiment_log) = 1 /\ senti_result # None

\* No line of text has more than m words.
NoLongLine(text, m) ==
    \A p \in 1..Len(text) :
        text[p] # "\n" => WordsIn(text, LineLo(text, p), LineHi(text, p)) <= m

C9_StagesReadTheirOwnInput ==
    /\ \A k \in 1..Len(sentiment_log) : sentiment_log[k].text = page.content
    /\ HasDoc =>
         doc = join(<<" ">>,
                    Texts(to_token(Pick(page.content,
                                        KeptPositions(page.content, DefaultMinSize)))))

\* A call with sentiment on a two-line content: the scorer saw the short
\* line, the similarity model saw the tokens of the long line only.
C9_Witness ==
    /\ pc = "returned"
    /\ page.content = LongLine \o <<"\n">> \o ShortLine
    /\ Len(sentiment_log) = 1
    /\ sentiment_log[1].text = LongLine \o <<"\n">> \o ShortLine
    /\ doc = <<"electric", " ", "car", " ", "discus", " ", "popular", " ",
               "worldwide">>

\* C10: no step of a call changes the module-level topic list, no step of a
\* call changes the caller's topic sequence, and a call that uses the
\* default scores the entries of the module-level list, in every call.
C10_TopicListsUnchanged ==
    [][/\ topics' = topics
       /\ topics' = DefaultTopics
       /\ pc' \notin {"get", "idle"} => topics_arg' = topics_arg
       /\ (pc' \in {"similarity", "sentiment", "table", "return", "returned"}
             /\ topics_arg' = topics')
            => split(topics_str') = DefaultTopics]_vars

\* A second call with the default topics returned a table of those topics.
C10_Witness ==
    /\ earlier /\ pc = "returned"
    /\ topics_arg = topics
    /\ {result[k].topics : k \in 1..Len(result)}
         = {<<topics_literal[j]>> : j \in 1..DefaultLen}

====
